---------------------------- MODULE Spec2Model ----------------------------
(***************************************************************************)
(* thread-control: a model of the two primitives of the crate.             *)
(*                                                                         *)
(*   src/src/lib.rs      Flag / Control  (cancellation pair)               *)
(*   src/src/request.rs  Requester / Responder  (single-slot rendezvous)   *)
(*                                                                         *)
(* Every thread is a process with a program position; one action is one    *)
(* atomic step of the code (one atomic load/store, one Arc/Weak reference  *)
(* count operation, one lock acquisition, or one critical section).        *)
(* Atomics are modelled as coherent single locations (every load reads the *)
(* latest store); the Relaxed ordering of lib.rs orders nothing else.      *)
(***************************************************************************)
EXTENDS Naturals, FiniteSets, Sequences, TLC

(***************************************************************************)
(* Bounds of the model.                                                    *)
(***************************************************************************)
NumSupervisors == 2     \* threads that call methods of a Control
MaxControls == 2        \* Controls created from the Flag (make_pair + take_control)
NumRequesters == 2      \* threads holding a clone of the Requester
MaxVal == 2             \* request and response payloads are 1..MaxVal
MaxClock == 1           \* now.elapsed() is counted up to MaxClock

Supervisors == 1..NumSupervisors
Requesters == 1..NumRequesters
Vals == 1..MaxVal
Durations == 0..MaxClock

VARIABLES
    \* ---- lib.rs ----
    wpc,            \* position of the worker thread that owns the Flag
    panicking,      \* thread::panicking() of the worker thread
    aliveVal,       \* the AtomicBool behind Flag.alive
    interruptVal,   \* the AtomicBool behind Flag.interrupt
    aliveStrong,    \* strong count of the Arc behind Flag.alive
    nControls,      \* Controls that exist
    supPc,          \* position of each supervisor thread
    supOp,          \* the last call each supervisor completed
    supRet,         \* what that call returned
    supLate,        \* whether that call started after the Flag was destroyed
    lastAlive,      \* outcome of the worker's last alive() poll
    pollInt,        \* that poll started after an interrupt() had returned
    pollStop,       \* that poll started after a stop() had stored
    interruptCalled,\* some interrupt() has been called
    stopStored,     \* some stop() has stored false
    \* ---- request.rs ----
    slot,           \* the State inside the Mutex
    lockHolder,     \* thread holding the Mutex, or Nobody
    poisoned,       \* the Mutex's poison flag
    slotStrong,     \* strong count of the Arc<Mutex<State>>
    rpc,            \* position of each requester thread
    rarg,           \* the local `request` of each requester's current call
    rtimeout,       \* its local `timeout`
    relapsed,       \* now.elapsed() of its local `now`
    rres,           \* the result of each requester's last call
    qpc,            \* position of the responder thread
    qarg,           \* the response value of the responder's set_response()
    qold,           \* the responder's local `request` (value mem::replace returned)
    qret,           \* the value the responder's last get_request() returned,
                    \* until the responder answers it
    qActed,         \* the responder has called one of its methods
    qmode,          \* how the application drives the responder
    \* ---- history ----
    timedOut        \* some request() has returned Err(Error::Timeout)

ctlVars == <<wpc, panicking, aliveVal, interruptVal, aliveStrong, nControls,
             supPc, supOp, supRet, supLate, lastAlive, pollInt,
             pollStop, interruptCalled, stopStored>>
reqVars == <<slot, lockHolder, poisoned, slotStrong, rpc, rarg, rtimeout,
             relapsed, rres, qpc, qarg, qold, qret, qActed,
             qmode, timedOut>>
histVars == <<timedOut>>
vars == <<ctlVars, reqVars>>

(***************************************************************************)
(* request.rs: enum State<I, O> and enum Error.                            *)
(***************************************************************************)
Free == [tag |-> "Free", val |-> 0]
Request(i) == [tag |-> "Request", val |-> i]
InProgress == [tag |-> "InProgress", val |-> 0]
Response(o) == [tag |-> "Response", val |-> o]
State == {Free, InProgress} \cup {Request(i) : i \in Vals}
            \cup {Response(o) : o \in Vals}

\* Option<time::Duration>
NoTimeout == <<"None", 0>>
SomeTimeout(d) == <<"Some", d>>

\* the threads that can hold the Mutex
Nobody == <<"nobody", 0>>
Responder == <<"responder", 0>>
Requester(r) == <<"requester", r>>

Ok(o) == [tag |-> "Ok", val |-> o]
Err(e) == [tag |-> "Err", val |-> e]
NoResult == [tag |-> "none", val |-> 0]

(***************************************************************************)
(* Initial states.  make_pair(): Flag::new() then take_control().          *)
(* interaction(): one slot, State::Free, the Responder owning it.          *)
(***************************************************************************)
InitCtlWith(active) ==
    /\ wpc = "run"
    /\ panicking = FALSE
    /\ aliveVal = TRUE
    /\ interruptVal = FALSE
    /\ aliveStrong = 1
    /\ nControls = 1
    /\ supPc = [s \in Supervisors |-> IF s \in active THEN "idle" ELSE "off"]
    /\ supOp = [s \in Supervisors |-> "none"]
    /\ supRet = [s \in Supervisors |-> FALSE]
    /\ supLate = [s \in Supervisors |-> FALSE]
    /\ lastAlive = "none"
    /\ pollInt = FALSE
    /\ pollStop = FALSE
    /\ interruptCalled = FALSE
    /\ stopStored = FALSE

InitReqWith(active, mode) ==
    /\ slot = Free
    /\ lockHolder = Nobody
    /\ poisoned = FALSE
    /\ slotStrong = 1
    /\ rpc = [r \in Requesters |-> IF r \in active THEN "idle" ELSE "off"]
    /\ rarg = [r \in Requesters |-> 0]
    /\ rtimeout = [r \in Requesters |-> NoTimeout]
    /\ relapsed = [r \in Requesters |-> 0]
    /\ rres = [r \in Requesters |-> NoResult]
    /\ qpc = "idle"
    /\ qarg = 0
    /\ qold = Free
    /\ qret = 0
    /\ qActed = FALSE
    /\ qmode = mode
    /\ timedOut = FALSE

(***************************************************************************)
(* lib.rs, the worker thread: it owns the Flag.                            *)
(***************************************************************************)
FlagExists == wpc # "exited"
FlagDestroyed == wpc = "exited"

\* Flag::take_control
take_control ==
    /\ wpc = "run"
    /\ nControls < MaxControls
    /\ nControls' = nControls + 1
    /\ UNCHANGED <<wpc, panicking, aliveVal, interruptVal, aliveStrong, supPc,
                   supOp, supRet, supLate, lastAlive, pollInt,
                   pollStop, interruptCalled, stopStored>>
    /\ UNCHANGED reqVars

\* an alive() that never looks at the interrupt flag
alive_ignores_interrupt ==
    /\ wpc = "run"
    /\ pollInt' = interruptCalled
    /\ pollStop' = stopStored
    /\ wpc' = "alive"
    /\ UNCHANGED <<panicking, lastAlive>>
    /\ UNCHANGED <<aliveVal, interruptVal, aliveStrong, nControls, supPc,
                   supOp, supRet, supLate, interruptCalled, stopStored>>
    /\ UNCHANGED reqVars

\* Flag::alive, first load: panic!() when the interrupt flag is set
alive_load_interrupt ==
    /\ wpc = "run"
    /\ pollInt' = interruptCalled
    /\ pollStop' = stopStored
    /\ IF interruptVal
          THEN /\ wpc' = "unwind"
               /\ panicking' = TRUE
               /\ lastAlive' = "panic"
          ELSE /\ wpc' = "alive"
               /\ UNCHANGED <<panicking, lastAlive>>
    /\ UNCHANGED <<aliveVal, interruptVal, aliveStrong, nControls, supPc,
                   supOp, supRet, supLate, interruptCalled, stopStored>>
    /\ UNCHANGED reqVars

\* Flag::alive, second load: the value returned
alive_load_alive ==
    /\ wpc = "alive"
    /\ wpc' = "run"
    /\ lastAlive' = IF aliveVal THEN "true" ELSE "false"
    /\ UNCHANGED <<panicking, aliveVal, interruptVal, aliveStrong, nControls,
                   supPc, supOp, supRet, supLate, pollInt, pollStop,
                   interruptCalled, stopStored>>
    /\ UNCHANGED reqVars

\* the worker's closure panics for a reason of its own
WorkerPanic ==
    /\ wpc = "run"
    /\ wpc' = "unwind"
    /\ panicking' = TRUE
    /\ UNCHANGED <<aliveVal, interruptVal, aliveStrong, nControls, supPc,
                   supOp, supRet, supLate, lastAlive, pollInt,
                   pollStop, interruptCalled, stopStored>>
    /\ UNCHANGED reqVars

\* the worker's closure returns
WorkerReturn ==
    /\ wpc = "run"
    /\ wpc' = "leave"
    /\ UNCHANGED <<panicking, aliveVal, interruptVal, aliveStrong, nControls,
                   supPc, supOp, supRet, supLate, lastAlive, pollInt,
                   pollStop, interruptCalled, stopStored>>
    /\ UNCHANGED reqVars

\* a drop() that sets the interrupt flag without asking thread::panicking()
Flag_drop_always_stores ==
    /\ wpc \in {"unwind", "leave"}
    /\ wpc' = "fields"
    /\ interruptVal' = TRUE
    /\ UNCHANGED <<panicking, aliveVal, aliveStrong, nControls, supPc,
                   supOp, supRet, supLate, lastAlive, pollInt, pollStop,
                   interruptCalled, stopStored>>
    /\ UNCHANGED reqVars

\* impl Drop for Flag: drop()
Flag_drop ==
    /\ wpc \in {"unwind", "leave"}
    /\ wpc' = "fields"
    /\ interruptVal' = IF panicking THEN TRUE ELSE interruptVal
    /\ UNCHANGED <<panicking, aliveVal, aliveStrong, nControls, supPc, supOp, supRet, supLate, lastAlive, pollInt, pollStop,
                   interruptCalled, stopStored>>
    /\ UNCHANGED reqVars

\* drop glue of a Flag whose Controls own `alive` (clone, not downgrade)
Flag_drop_fields_owned ==
    /\ wpc = "fields"
    /\ wpc' = "exited"
    /\ UNCHANGED <<panicking, aliveVal, interruptVal, aliveStrong, nControls,
                   supPc, supOp, supRet, supLate, lastAlive, pollInt, pollStop,
                   interruptCalled, stopStored>>
    /\ UNCHANGED reqVars

\* the drop glue after drop(): the Flag's Arc fields are released
Flag_drop_fields ==
    /\ wpc = "fields"
    /\ wpc' = "exited"
    /\ aliveStrong' = aliveStrong - 1
    /\ UNCHANGED <<panicking, aliveVal, interruptVal, nControls, supPc, supOp, supRet, supLate, lastAlive, pollInt, pollStop,
                   interruptCalled, stopStored>>
    /\ UNCHANGED reqVars

(***************************************************************************)
(* lib.rs, the supervisor threads: they call the methods of a Control.     *)
(***************************************************************************)
Returns(s, op, ret, late) ==
    /\ supOp' = [supOp EXCEPT ![s] = op]
    /\ supRet' = [supRet EXCEPT ![s] = ret]
    /\ supLate' = [supLate EXCEPT ![s] = late]

\* Control::interrupt
interrupt(s, c) ==
    /\ supPc[s] = "idle"
    /\ interruptVal' = TRUE
    /\ interruptCalled' = TRUE
    /\ c \in 1..nControls
    /\ Returns(s, "interrupt", FALSE, FlagDestroyed)
    /\ UNCHANGED <<wpc, panicking, aliveVal, aliveStrong, nControls, supPc,
                   lastAlive, pollInt, pollStop, stopStored>>
    /\ UNCHANGED reqVars

\* Control::stop, self.alive.upgrade()
stop_upgrade(s, c) ==
    /\ supPc[s] = "idle"
    /\ c \in 1..nControls
    /\ IF aliveStrong > 0
          THEN /\ aliveStrong' = aliveStrong + 1
               /\ supPc' = [supPc EXCEPT ![s] = "stop"]
               /\ supLate' = [supLate EXCEPT ![s] = FlagDestroyed]
               /\ UNCHANGED <<supOp, supRet>>
          ELSE /\ Returns(s, "stop", FALSE, FlagDestroyed)
               /\ UNCHANGED <<aliveStrong, supPc>>
    /\ UNCHANGED <<wpc, panicking, aliveVal, interruptVal, nControls,
                   lastAlive, pollInt, pollStop, interruptCalled, stopStored>>
    /\ UNCHANGED reqVars

\* a stop() whose closure stores nothing
stop_store_nothing(s) ==
    /\ supPc[s] = "stop"
    /\ stopStored' = TRUE
    /\ aliveStrong' = aliveStrong - 1
    /\ supPc' = [supPc EXCEPT ![s] = "idle"]
    /\ Returns(s, "stop", TRUE, supLate[s])
    /\ UNCHANGED <<wpc, panicking, aliveVal, interruptVal, nControls,
                   lastAlive, pollInt, pollStop, interruptCalled>>
    /\ UNCHANGED reqVars

\* Control::stop, the closure: store(false), then the upgraded Arc is dropped
stop_store(s) ==
    /\ supPc[s] = "stop"
    /\ aliveVal' = FALSE
    /\ stopStored' = TRUE
    /\ aliveStrong' = aliveStrong - 1
    /\ supPc' = [supPc EXCEPT ![s] = "idle"]
    /\ Returns(s, "stop", TRUE, supLate[s])
    /\ UNCHANGED <<wpc, panicking, interruptVal, nControls, lastAlive,
                   pollInt, pollStop, interruptCalled>>
    /\ UNCHANGED reqVars

\* Control::is_done, self.alive.upgrade()
is_done_upgrade(s, c) ==
    /\ supPc[s] = "idle"
    /\ c \in 1..nControls
    /\ IF aliveStrong > 0
          THEN /\ aliveStrong' = aliveStrong + 1
               /\ supPc' = [supPc EXCEPT ![s] = "is_done"]
               /\ supLate' = [supLate EXCEPT ![s] = FlagDestroyed]
               /\ UNCHANGED <<supOp, supRet>>
          ELSE /\ Returns(s, "is_done", TRUE, FlagDestroyed)
               /\ UNCHANGED <<aliveStrong, supPc>>
    /\ UNCHANGED <<wpc, panicking, aliveVal, interruptVal, nControls,
                   lastAlive, pollInt, pollStop, interruptCalled, stopStored>>
    /\ UNCHANGED reqVars

\* Control::is_done, .is_none() on Some(arc): the upgraded Arc is dropped
is_done_some(s) ==
    /\ supPc[s] = "is_done"
    /\ aliveStrong' = aliveStrong - 1
    /\ supPc' = [supPc EXCEPT ![s] = "idle"]
    /\ Returns(s, "is_done", FALSE, supLate[s])
    /\ UNCHANGED <<wpc, panicking, aliveVal, interruptVal, nControls, lastAlive, pollInt, pollStop, interruptCalled, stopStored>>
    /\ UNCHANGED reqVars

\* Control::is_interrupted
is_interrupted(s, c) ==
    /\ supPc[s] = "idle"
    /\ c \in 1..nControls
    /\ Returns(s, "is_interrupted", interruptVal, FlagDestroyed)
    /\ UNCHANGED <<wpc, panicking, aliveVal, interruptVal, aliveStrong,
                   nControls, supPc, lastAlive, pollInt, pollStop,
                   interruptCalled, stopStored>>
    /\ UNCHANGED reqVars

Controls == 1..nControls

NextCtl ==
    \/ take_control
    \/ alive_load_interrupt
    \/ alive_load_alive
    \/ WorkerPanic
    \/ WorkerReturn
    \/ Flag_drop
    \/ Flag_drop_fields
    \/ \E s \in Supervisors, c \in Controls : interrupt(s, c)
    \/ \E s \in Supervisors, c \in Controls : stop_upgrade(s, c)
    \/ \E s \in Supervisors : stop_store(s)
    \/ \E s \in Supervisors, c \in Controls : is_done_upgrade(s, c)
    \/ \E s \in Supervisors : is_done_some(s)
    \/ \E s \in Supervisors, c \in Controls : is_interrupted(s, c)

\* one worker thread and one supervisor thread (the crate's doc examples)
InitPair == InitCtlWith({1}) /\ InitReqWith(Requesters, "any")
SpecPair == InitPair /\ [][NextCtl]_vars

\* one worker thread and several supervisor threads sharing the Controls
InitShared == InitCtlWith(Supervisors) /\ InitReqWith(Requesters, "any")
SpecShared == InitShared /\ [][NextCtl]_vars

(***************************************************************************)
(* request.rs, the requester threads: Requester::request.                  *)
(***************************************************************************)
\* every `return` of request(): the locals die, the upgraded Arc `mutex`
\* is dropped, and the caller holds the Result
RequestReturns(r, res) ==
    /\ rres' = [rres EXCEPT ![r] = res]
    /\ rpc' = [rpc EXCEPT ![r] = "returned"]
    /\ rarg' = [rarg EXCEPT ![r] = 0]
    /\ rtimeout' = [rtimeout EXCEPT ![r] = NoTimeout]
    /\ relapsed' = [relapsed EXCEPT ![r] = 0]

\* time::Instant::now() and self.data.upgrade()
request_upgrade(r) ==
    /\ rpc[r] = "idle"
    /\ IF slotStrong > 0
          THEN /\ slotStrong' = slotStrong + 1
               /\ rpc' = [rpc EXCEPT ![r] = "lock"]
               /\ relapsed' = [relapsed EXCEPT ![r] = 0]
               /\ UNCHANGED <<rres, rarg, rtimeout>>
          ELSE /\ RequestReturns(r, Err("ThreadDead"))
               /\ UNCHANGED slotStrong
    /\ UNCHANGED <<slot, lockHolder, poisoned, qpc, qarg, qold, qret,
                   qActed, qmode>>
    /\ UNCHANGED ctlVars
    /\ UNCHANGED histVars

\* a lock() whose caller recovers the guard of a poisoned Mutex and goes on
request_lock_ignores_poison(r, x, t) ==
    /\ rpc[r] = "lock"
    /\ lockHolder = Nobody
    /\ lockHolder' = Requester(r)
    /\ rpc' = [rpc EXCEPT ![r] = "place"]
    /\ rarg' = [rarg EXCEPT ![r] = x]
    /\ rtimeout' = [rtimeout EXCEPT ![r] = t]
    /\ UNCHANGED <<rres, relapsed, slotStrong>>
    /\ UNCHANGED <<slot, poisoned, qpc, qarg, qold, qret, qActed,
                   qmode>>
    /\ UNCHANGED ctlVars
    /\ UNCHANGED histVars

\* mutex.lock(): blocks while the Mutex is held.  On a poisoned Mutex it
\* still acquires: the Err(PoisonError) it returns holds the guard.
\* The call's arguments `request` = x and `timeout` = t are drawn here, in
\* the step before the code first reads either of them.
request_lock(r, x, t) ==
    /\ rpc[r] = "lock"
    /\ lockHolder = Nobody
    /\ lockHolder' = Requester(r)
    /\ rpc' = [rpc EXCEPT ![r] = IF poisoned THEN "lock_err" ELSE "place"]
    /\ rarg' = [rarg EXCEPT ![r] = x]
    /\ rtimeout' = [rtimeout EXCEPT ![r] = t]
    /\ UNCHANGED <<rres, relapsed, slotStrong>>
    /\ UNCHANGED <<slot, poisoned, qpc, qarg, qold, qret, qActed,
                   qmode>>
    /\ UNCHANGED ctlVars
    /\ UNCHANGED histVars

\* a request_place that overwrites whatever the slot holds
request_place_overwrite(r) ==
    /\ rpc[r] = "place"
    /\ lockHolder = Requester(r)
    /\ lockHolder' = Nobody
    /\ slot' = Request(rarg[r])
    /\ rpc' = [rpc EXCEPT ![r] = "poll"]
    /\ rarg' = [rarg EXCEPT ![r] = 0]
    /\ UNCHANGED <<rres, rtimeout, relapsed, slotStrong>>
    /\ UNCHANGED <<poisoned, qpc, qarg, qold, qret, qActed, qmode>>
    /\ UNCHANGED ctlVars
    /\ UNCHANGED timedOut

\* a first critical section that, finding the slot taken, waits for its
\* turn in the polling loop instead of returning Err(Busy)
request_place_queues(r) ==
    /\ rpc[r] = "place"
    /\ lockHolder = Requester(r)
    /\ lockHolder' = Nobody
    /\ slot' = IF slot = Free THEN Request(rarg[r]) ELSE slot
    /\ rpc' = [rpc EXCEPT ![r] = "poll"]
    /\ rarg' = [rarg EXCEPT ![r] = 0]
    /\ UNCHANGED <<rres, rtimeout, relapsed, slotStrong>>
    /\ UNCHANGED <<poisoned, qpc, qarg, qold, qret, qActed, qmode>>
    /\ UNCHANGED ctlVars
    /\ UNCHANGED timedOut

\* the first critical section: place the request, or Err(Busy)
request_place(r) ==
    /\ rpc[r] = "place"
    /\ lockHolder = Requester(r)
    /\ lockHolder' = Nobody
    /\ IF slot = Free
          THEN /\ slot' = Request(rarg[r])
               /\ rpc' = [rpc EXCEPT ![r] = "poll"]
               /\ rarg' = [rarg EXCEPT ![r] = 0]    \* moved into the slot
               /\ UNCHANGED <<rres, rtimeout, relapsed, slotStrong>>
          ELSE /\ RequestReturns(r, Err("Busy"))
               /\ slotStrong' = slotStrong - 1
               /\ UNCHANGED slot
    /\ UNCHANGED <<poisoned, qpc, qarg, qold, qret, qActed, qmode>>
    /\ UNCHANGED ctlVars
    /\ UNCHANGED timedOut

\* now.elapsed() >= duration
Elapsed(r) == relapsed[r]
TimedOut(r) == rtimeout[r][1] = "Some" /\ Elapsed(r) >= rtimeout[r][2]

\* a polling loop that withdraws its request when it gives up
request_try_lock_withdraws(r) ==
    /\ rpc[r] = "poll"
    /\ IF lockHolder # Nobody
          THEN /\ IF TimedOut(r)
                     THEN /\ RequestReturns(r, Err("Timeout"))
                          /\ slotStrong' = slotStrong - 1
                          /\ slot' = Free
                     ELSE UNCHANGED <<rres, rpc, rarg, rtimeout, relapsed,
                                      slotStrong, slot>>
               /\ UNCHANGED lockHolder
          ELSE /\ lockHolder' = Requester(r)
               /\ rpc' = [rpc EXCEPT ![r] =
                             IF poisoned THEN "poll_err" ELSE "take"]
               /\ UNCHANGED <<rres, rarg, rtimeout, relapsed, slotStrong, slot>>
    /\ UNCHANGED <<poisoned, qpc, qarg, qold, qret, qActed, qmode>>
    /\ UNCHANGED ctlVars
    /\ timedOut' = (timedOut \/ (lockHolder # Nobody /\ TimedOut(r)))

\* one turn of the loop: mutex.try_lock()
request_try_lock(r) ==
    /\ rpc[r] = "poll"
    /\ IF lockHolder # Nobody
          THEN \* Err(TryLockError::WouldBlock)
               /\ IF TimedOut(r)
                     THEN /\ RequestReturns(r, Err("Timeout"))
                          /\ slotStrong' = slotStrong - 1
                     ELSE \* thread::yield_now()
                          UNCHANGED <<rres, rpc, rarg, rtimeout, relapsed,
                                      slotStrong>>
               /\ UNCHANGED lockHolder
          ELSE \* Ok(mut data), or Err(TryLockError::Poisoned(_)) holding
               \* the guard
               /\ lockHolder' = Requester(r)
               /\ rpc' = [rpc EXCEPT ![r] =
                             IF poisoned THEN "poll_err" ELSE "take"]
               /\ UNCHANGED <<rres, rarg, rtimeout, relapsed, slotStrong>>
    /\ UNCHANGED <<slot, poisoned, qpc, qarg, qold, qret, qActed,
                   qmode>>
    /\ UNCHANGED ctlVars
    /\ timedOut' = (timedOut \/ (lockHolder # Nobody /\ TimedOut(r)))

\* a second critical section that takes only a Response and otherwise
\* leaves the slot alone and polls again
request_take_waits(r) ==
    /\ rpc[r] = "take"
    /\ lockHolder = Requester(r)
    /\ lockHolder' = Nobody
    /\ IF slot.tag = "Response"
          THEN /\ slot' = Free
               /\ RequestReturns(r, Ok(slot.val))
               /\ slotStrong' = slotStrong - 1
          ELSE /\ rpc' = [rpc EXCEPT ![r] = "poll"]
               /\ UNCHANGED <<slot, rres, rarg, rtimeout, relapsed, slotStrong>>
    /\ UNCHANGED <<poisoned, qpc, qarg, qold, qret, qActed, qmode>>
    /\ UNCHANGED ctlVars
    /\ UNCHANGED timedOut

\* the second critical section: mem::replace(&mut *data, State::Free)
request_take(r) ==
    /\ rpc[r] = "take"
    /\ lockHolder = Requester(r)
    /\ lockHolder' = Nobody
    /\ slot' = Free
    /\ IF slot.tag = "Response"
          THEN RequestReturns(r, Ok(slot.val))
          ELSE RequestReturns(r, Err("WrongState"))
    /\ slotStrong' = slotStrong - 1
    /\ UNCHANGED <<poisoned, qpc, qarg, qold, qret, qActed, qmode>>
    /\ UNCHANGED ctlVars
    /\ UNCHANGED timedOut

\* the Err(_) arm of lock() and the Poisoned(_) arm of try_lock():
\* return Err(Error::ThreadDead), dropping the guard inside the error
request_poisoned(r) ==
    /\ rpc[r] \in {"lock_err", "poll_err"}
    /\ lockHolder = Requester(r)
    /\ lockHolder' = Nobody
    /\ RequestReturns(r, Err("ThreadDead"))
    /\ slotStrong' = slotStrong - 1
    /\ UNCHANGED <<slot, poisoned, qpc, qarg, qold, qret, qActed,
                   qmode>>
    /\ UNCHANGED ctlVars
    /\ UNCHANGED histVars

\* the caller has looked at the Result and is ready for its next call
request_returned(r) ==
    /\ rpc[r] = "returned"
    /\ rpc' = [rpc EXCEPT ![r] = "idle"]
    /\ rres' = [rres EXCEPT ![r] = NoResult]
    /\ UNCHANGED <<slot, lockHolder, poisoned, slotStrong, rarg, rtimeout,
                   relapsed, qpc, qarg, qold, qret, qActed, qmode>>
    /\ UNCHANGED ctlVars
    /\ UNCHANGED histVars

\* time passes: now.elapsed() grows in every call that has taken `now` and
\* may still read it.  Durations are at most MaxClock, so counting no
\* further than MaxClock leaves every `elapsed >= duration` test exact.
Timed(r) == rpc[r] \in {"lock", "place", "poll"}
Tick ==
    /\ \E r \in Requesters : Timed(r) /\ relapsed[r] < MaxClock
    /\ relapsed' = [r \in Requesters |->
                      IF Timed(r) /\ relapsed[r] < MaxClock
                         THEN relapsed[r] + 1 ELSE relapsed[r]]
    /\ UNCHANGED <<slot, lockHolder, poisoned, slotStrong, rpc, rarg, rtimeout,
                   rres, qpc, qarg, qold, qret, qActed, qmode>>
    /\ UNCHANGED ctlVars
    /\ UNCHANGED histVars

(***************************************************************************)
(* request.rs, the responder thread: Responder::get_request and            *)
(* Responder::set_response.  qmode "any": the application calls them in    *)
(* any order; qmode "loop": it polls get_request() and calls               *)
(* set_response() exactly once after each get_request() that returned a    *)
(* value.                                                                  *)
(***************************************************************************)
None == 0       \* Option::None of get_request(); Some(i) is i

MayGet == qmode = "any" \/ qret = None
MaySet == qmode = "any" \/ qret # None

\* a panic raised after the guard has been dropped: the Mutex is not poisoned
PanicsUnpoisoned ==
    /\ poisoned' = poisoned
    /\ lockHolder' = Nobody
    /\ qpc' = "unwind"

\* a panic!() under the MutexGuard: the guard's drop poisons and unlocks
PanicsLocked ==
    /\ poisoned' = TRUE
    /\ lockHolder' = Nobody
    /\ qpc' = "unwind"

\* get_request: self.data.lock()
get_request_lock ==
    /\ qpc = "idle"
    /\ MayGet
    /\ lockHolder = Nobody
    /\ qActed' = TRUE
    /\ lockHolder' = Responder
    /\ qpc' = IF poisoned THEN "get_err" ELSE "get_replace"
    /\ UNCHANGED <<slot, poisoned, slotStrong, rpc, rarg, rtimeout, relapsed,
                   rres, qarg, qold, qret, qmode>>
    /\ UNCHANGED ctlVars
    /\ UNCHANGED histVars

\* get_request: mem::replace(&mut *data, State::InProgress)
get_request_replace ==
    /\ qpc = "get_replace"
    /\ lockHolder = Responder
    /\ qold' = slot
    /\ slot' = InProgress
    /\ qpc' = "get_match"
    /\ UNCHANGED <<lockHolder, poisoned, slotStrong, rpc, rarg, rtimeout,
                   relapsed, rres, qarg, qret, qActed, qmode>>
    /\ UNCHANGED ctlVars
    /\ UNCHANGED histVars

\* a get_request that throws an uncollected Response away
get_request_match_discards ==
    /\ qpc = "get_match"
    /\ lockHolder = Responder
    /\ CASE qold.tag = "Request" ->
                /\ qret' = qold.val
                /\ lockHolder' = Nobody
                /\ qpc' = "idle"
                /\ UNCHANGED <<slot, poisoned>>
         [] qold.tag = "Free" ->
                /\ slot' = Free
                /\ qret' = None
                /\ lockHolder' = Nobody
                /\ qpc' = "idle"
                /\ UNCHANGED <<poisoned>>
         [] qold.tag = "Response" ->
                /\ slot' = Free
                /\ qret' = None
                /\ lockHolder' = Nobody
                /\ qpc' = "idle"
                /\ UNCHANGED <<poisoned>>
         [] qold.tag = "InProgress" ->
                /\ PanicsLocked
                /\ UNCHANGED <<slot, qret>>
    /\ qold' = Free
    /\ UNCHANGED <<slotStrong, rpc, rarg, rtimeout, relapsed, rres, qarg,
                   qActed, qmode>>
    /\ UNCHANGED ctlVars
    /\ UNCHANGED timedOut

\* a get_request whose State::Free arm does not put State::Free back
get_request_match_keeps ==
    /\ qpc = "get_match"
    /\ lockHolder = Responder
    /\ CASE qold.tag = "Request" ->
                /\ qret' = qold.val
                /\ lockHolder' = Nobody
                /\ qpc' = "idle"
                /\ UNCHANGED <<slot, poisoned>>
         [] qold.tag = "Free" ->
                /\ qret' = None
                /\ lockHolder' = Nobody
                /\ qpc' = "idle"
                /\ UNCHANGED <<slot, poisoned>>
         [] qold.tag = "Response" ->
                /\ qret' = None
                /\ lockHolder' = Nobody
                /\ qpc' = "idle"
                /\ UNCHANGED <<slot, poisoned>>
         [] qold.tag = "InProgress" ->
                /\ PanicsLocked
                /\ UNCHANGED <<slot, qret>>
    /\ qold' = Free
    /\ UNCHANGED <<slotStrong, rpc, rarg, rtimeout, relapsed, rres, qarg,
                   qActed, qmode>>
    /\ UNCHANGED ctlVars
    /\ UNCHANGED timedOut

\* get_request: match request { ... }
get_request_match ==
    /\ qpc = "get_match"
    /\ lockHolder = Responder
    /\ CASE qold.tag = "Request" ->
                /\ qret' = qold.val
                /\ lockHolder' = Nobody
                /\ qpc' = "idle"
                /\ UNCHANGED <<slot, poisoned>>
         [] qold.tag = "Free" ->
                /\ slot' = Free
                /\ qret' = None
                /\ lockHolder' = Nobody
                /\ qpc' = "idle"
                /\ UNCHANGED <<poisoned>>
         [] qold.tag = "Response" ->
                /\ qret' = None
                /\ lockHolder' = Nobody
                /\ qpc' = "idle"
                /\ UNCHANGED <<slot, poisoned>>
         [] qold.tag = "InProgress" ->
                /\ PanicsLocked
                /\ UNCHANGED <<slot, qret>>
    /\ qold' = Free
    /\ UNCHANGED <<slotStrong, rpc, rarg, rtimeout, relapsed, rres, qarg,
                   qActed, qmode>>
    /\ UNCHANGED ctlVars
    /\ UNCHANGED timedOut

\* set_response: self.data.lock()
set_response_lock(y) ==
    /\ qpc = "idle"
    /\ MaySet
    /\ lockHolder = Nobody
    /\ qActed' = TRUE
    /\ qret' = None
    /\ lockHolder' = Responder
    /\ qpc' = IF poisoned THEN "set_err" ELSE "set_replace"
    /\ qarg' = y
    /\ UNCHANGED <<slot, poisoned, slotStrong, rpc, rarg, rtimeout, relapsed,
                   rres, qold, qmode>>
    /\ UNCHANGED ctlVars
    /\ UNCHANGED histVars

\* set_response: mem::replace(&mut *data, State::InProgress)
set_response_replace ==
    /\ qpc = "set_replace"
    /\ lockHolder = Responder
    /\ qold' = slot
    /\ slot' = InProgress
    /\ qpc' = "set_match"
    /\ UNCHANGED <<lockHolder, poisoned, slotStrong, rpc, rarg, rtimeout,
                   relapsed, rres, qarg, qret, qActed, qmode>>
    /\ UNCHANGED ctlVars
    /\ UNCHANGED histVars

\* a set_response that answers an unread Request with its own payload
set_response_match_echo ==
    /\ qpc = "set_match"
    /\ lockHolder = Responder
    /\ IF qold.tag \in {"InProgress", "Request"}
          THEN /\ slot' = Response(IF qold.tag = "Request" THEN qold.val ELSE qarg)
               /\ lockHolder' = Nobody
               /\ qpc' = "idle"
               /\ UNCHANGED poisoned
          ELSE /\ PanicsLocked
               /\ UNCHANGED slot
    /\ qold' = Free
    /\ qarg' = 0
    /\ UNCHANGED <<slotStrong, rpc, rarg, rtimeout, relapsed, rres, qret,
                   qActed, qmode>>
    /\ UNCHANGED ctlVars
    /\ UNCHANGED timedOut

\* set_response: match request { ... }
set_response_match ==
    /\ qpc = "set_match"
    /\ lockHolder = Responder
    /\ IF qold.tag \in {"InProgress", "Request"}
          THEN /\ slot' = Response(qarg)
               /\ lockHolder' = Nobody
               /\ qpc' = "idle"
               /\ UNCHANGED poisoned
          ELSE /\ PanicsLocked
               /\ UNCHANGED slot
    /\ qold' = Free
    /\ qarg' = 0
    /\ UNCHANGED <<slotStrong, rpc, rarg, rtimeout, relapsed, rres, qret,
                   qActed, qmode>>
    /\ UNCHANGED ctlVars
    /\ UNCHANGED timedOut

\* the Err(_) arms of get_request (returns None) and of set_response
\* (returns): the guard inside the PoisonError is dropped
responder_poisoned ==
    /\ qpc \in {"get_err", "set_err"}
    /\ lockHolder = Responder
    /\ lockHolder' = Nobody
    /\ qpc' = "idle"
    /\ qret' = None
    /\ qarg' = 0
    /\ UNCHANGED <<slot, poisoned, slotStrong, rpc, rarg, rtimeout, relapsed,
                   rres, qold, qActed, qmode>>
    /\ UNCHANGED ctlVars
    /\ UNCHANGED histVars

\* the application catches the responder's panic (std::panic::catch_unwind)
\* and goes on using the Responder
catch_unwind ==
    /\ qpc = "unwind"
    /\ qpc' = "idle"
    /\ UNCHANGED <<slot, lockHolder, poisoned, slotStrong, rpc, rarg, rtimeout,
                   relapsed, rres, qarg, qold, qret, qActed, qmode>>
    /\ UNCHANGED ctlVars
    /\ UNCHANGED histVars

\* the Responder is dropped: by its owner, or by the unwinding of a panic
Responder_drop ==
    /\ qpc \in {"idle", "unwind"}
    /\ qpc' = "dropped"
    /\ slotStrong' = slotStrong - 1
    /\ UNCHANGED <<slot, lockHolder, poisoned, rpc, rarg, rtimeout, relapsed,
                   rres, qarg, qold, qret, qActed, qmode>>
    /\ UNCHANGED ctlVars
    /\ UNCHANGED histVars

Timeouts == {NoTimeout} \cup {SomeTimeout(d) : d \in Durations}

NextReq ==
    \/ \E r \in Requesters : request_upgrade(r)
    \/ \E r \in Requesters, x \in Vals, t \in Timeouts : request_lock(r, x, t)
    \/ \E r \in Requesters : request_place(r)
    \/ \E r \in Requesters : request_try_lock(r)
    \/ \E r \in Requesters : request_take(r)
    \/ \E r \in Requesters : request_poisoned(r)
    \/ \E r \in Requesters : request_returned(r)
    \/ Tick
    \/ get_request_lock
    \/ get_request_replace
    \/ get_request_match
    \/ \E y \in Vals : set_response_lock(y)
    \/ set_response_replace
    \/ set_response_match
    \/ responder_poisoned
    \/ catch_unwind
    \/ Responder_drop

\* one requester thread, the responder called in any order
InitSingle == InitCtlWith({1}) /\ InitReqWith({1}, "any")
SpecSingle == InitSingle /\ [][NextReq]_vars

\* SpecSingle under fair scheduling: a thread that holds the Mutex goes on
\* to release it, and a thread that calls lock() or try_lock() again and
\* again while the Mutex keeps becoming free acquires it in the end
FairReq ==
    /\ \A r \in Requesters :
          /\ WF_vars(request_place(r))
          /\ WF_vars(request_take(r))
          /\ WF_vars(request_poisoned(r))
          /\ WF_vars(request_try_lock(r))
          /\ SF_vars(request_try_lock(r) /\ lockHolder = Nobody)
          /\ SF_vars(\E x \in Vals, t \in Timeouts : request_lock(r, x, t))
    /\ WF_vars(get_request_replace)
    /\ WF_vars(get_request_match)
    /\ WF_vars(set_response_replace)
    /\ WF_vars(set_response_match)
    /\ WF_vars(responder_poisoned)
SpecSingleFair == InitSingle /\ [][NextReq]_vars /\ FairReq

\* several requester threads (clones), the responder called in any order
InitReq == InitCtlWith({1}) /\ InitReqWith(Requesters, "any")
SpecReq == InitReq /\ [][NextReq]_vars

\* several requester threads, the responder driven by a get/set loop
InitLoop == InitCtlWith({1}) /\ InitReqWith(Requesters, "loop")
SpecLoop == InitLoop /\ [][NextReq]_vars


(***************************************************************************)
(* Properties of the rendezvous (request.rs).                              *)
(***************************************************************************)

\* C1: a request(x, None) leaves its waiting phase through the critical
\* section only when it has observed the slot as Response(y); it then
\* returns Ok(y) and leaves the slot Free.
C1_ReturnsOnlyOnResponse ==
    [][\A r \in Requesters :
          (rpc[r] = "take" /\ rpc'[r] = "returned" /\ rtimeout[r] = NoTimeout)
             => (slot.tag = "Response" /\ rres'[r] = Ok(slot.val)
                 /\ slot' = Free)]_vars

\* C2: a get_request() that finds the slot Response(y) returns None and
\* leaves the slot Response(y).
C2_GetRequestKeepsResponse ==
    [][(get_request_match /\ qold.tag = "Response")
          => (slot' = qold /\ qret' = None)]_vars

\* C3: with a responder that calls set_response() exactly once after each
\* get_request() that returned a value, and nothing else, no request()
\* returns Err(WrongState).
C3_NoWrongState ==
    \A r \in Requesters : rres[r] # Err("WrongState")

\* C4: a request(x, Some(d)) that returns while the responder is alive and
\* has never called get_request() or set_response() returns Err(Timeout).
C4_OnlyTimeout ==
    [][\A r \in Requesters :
          (rpc[r] \in {"lock", "place", "poll", "take"}
             /\ rpc'[r] = "returned" /\ rtimeout[r] # NoTimeout
             /\ ~qActed /\ qpc = "idle")
             => rres'[r] = Err("Timeout")]_vars

\* C5: a request() whose first critical section finds the slot Request,
\* InProgress or Response returns Err(Busy) from that critical section and
\* leaves the slot, payload included, as it was.
C5_BusyLeavesSlot ==
    [][\A r \in Requesters :
          (rpc[r] = "place" /\ rpc'[r] # "place" /\ slot # Free)
             => (slot' = slot /\ rpc'[r] = "returned"
                 /\ rres'[r] = Err("Busy"))]_vars

\* C5, its case: a second request got Err(Busy) while the first is still
\* waiting and its Request(x) has not been touched by the responder.
C5_Witness ==
    \E r1, r2 \in Requesters :
        /\ r1 # r2
        /\ rpc[r1] = "poll"
        /\ slot.tag = "Request"
        /\ ~qActed
        /\ rpc[r2] = "returned"
        /\ rres[r2] = Err("Busy")

(***************************************************************************)
(* Properties of the cancellation pair (lib.rs).                           *)
(***************************************************************************)

\* C6: with one supervisor thread, is_done() returns false when its read
\* of the Flag's `alive` happens while the Flag exists, and true when the
\* call is made after the Flag was destroyed.
C6_IsDoneIffDestroyed ==
    \A s \in Supervisors :
        supOp[s] = "is_done" => supRet[s] = supLate[s]

\* C6, its case: the worker panicked, no stop() was ever called, and an
\* is_done() made after the Flag's destruction returned true.
C6_Witness ==
    /\ supOp[1] = "is_done"
    /\ supLate[1]
    /\ supRet[1]
    /\ panicking
    /\ ~stopStored

\* C7: with Controls shared by several threads, every is_done() that
\* starts after the Flag was destroyed returns true.
C7_LateIsDoneTrue ==
    \A s \in Supervisors :
        (supOp[s] = "is_done" /\ supLate[s]) => supRet[s]

\* C8: an alive() poll that starts after an interrupt() has returned panics
\* whatever `alive` holds; after the worker has exited from that panic,
\* is_interrupted() and is_done() return true.
C8_InterruptAborts ==
    /\ pollInt => (lastAlive = "panic" /\ panicking /\ wpc # "alive")
    /\ \A s \in Supervisors :
          (supLate[s] /\ lastAlive = "panic")
             => /\ supOp[s] = "is_interrupted" => supRet[s]
                /\ supOp[s] = "is_done" => supRet[s]

\* C8, its case: stop() and interrupt() both returned before the poll, the
\* poll panicked, and is_done() returned true after the worker's exit.
C8_Witness ==
    /\ pollInt
    /\ pollStop
    /\ ~aliveVal
    /\ lastAlive = "panic"
    /\ wpc = "exited"
    /\ supOp[1] = "is_done"
    /\ supRet[1]

\* C9: a poll that starts after a stop() has stored, with no interrupt()
\* called before it, returns false; after a normal exit with no
\* interrupt(), is_interrupted() returns false and is_done() true; and a
\* stop() called after the Flag's destruction changes nothing.
C9_StopInv ==
    /\ (wpc # "alive" /\ pollStop /\ ~pollInt) => lastAlive = "false"
    /\ \A s \in Supervisors :
          (supLate[s] /\ ~panicking /\ ~interruptCalled)
             => /\ supOp[s] = "is_interrupted" => ~supRet[s]
                /\ supOp[s] = "is_done" => supRet[s]
C9_StopIsCooperative ==
    /\ []C9_StopInv
    /\ [][\A s \in Supervisors, c \in Controls :
             (FlagDestroyed /\ stop_upgrade(s, c))
                => UNCHANGED <<wpc, panicking, aliveVal, interruptVal,
                               aliveStrong, supPc>>]_vars

\* C9, its case: the worker polled false after stop(), returned, and a
\* stop() was called again after the Flag's destruction.
C9_Witness ==
    /\ pollStop
    /\ lastAlive = "false"
    /\ wpc = "exited"
    /\ ~panicking
    /\ ~interruptCalled
    /\ supOp[1] = "stop"
    /\ supLate[1]

\* C10: the interrupt flag (what is_interrupted() returns) is true exactly
\* when interrupt() has been called or the Flag's destructor has run on a
\* panicking thread, and it never goes back to false.
C10_Interrupted ==
    /\ [](interruptVal <=>
            (interruptCalled \/ (panicking /\ wpc \in {"fields", "exited"})))
    /\ [][interruptVal => interruptVal']_vars
    /\ [](\A s \in Supervisors :
            supOp[s] = "is_interrupted" => (supRet[s] => interruptVal))

\* C10, its case: the worker failed with no interrupt() ever called, and
\* is_interrupted() returned true after the Flag's destruction.
C10_Witness ==
    /\ wpc = "exited"
    /\ panicking
    /\ ~interruptCalled
    /\ supOp[1] = "is_interrupted"
    /\ supRet[1]

(***************************************************************************)
(* Calls on a poisoned Mutex                                               *)
(***************************************************************************)

\* r's call returns in this step
ReturnsNow(r) == rpc[r] # "returned" /\ rpc'[r] = "returned"

\* C11 (as stated): once the Mutex is poisoned, every request() that
\* returns, whether newly started or already in its polling loop, returns
\* Err(ThreadDead).
C11_AlwaysThreadDead ==
    [][\A r \in Requesters :
          (poisoned /\ ReturnsNow(r)) => rres'[r] = Err("ThreadDead")]_vars

\* C11 (amended): once the Mutex is poisoned it stays poisoned, no call
\* changes the slot and no call panics; a get_request() or set_response()
\* takes the Err(_) arm and returns None / returns; every request() that
\* returns yields Err(ThreadDead), except a call in its polling loop whose
\* deadline has passed when try_lock() finds the Mutex held by another
\* caller: that one returns Err(Timeout).
C11_PoisonedCalls ==
    [][poisoned =>
          /\ poisoned'
          /\ slot' = slot
          /\ (qpc' = "unwind" => qpc = "unwind")
          /\ (qpc = "idle" => qpc' \in {"idle", "get_err", "set_err", "dropped"})
          /\ (qpc \in {"get_err", "set_err"} /\ qpc' # qpc =>
                  qpc' = "idle" /\ qret' = None)
          /\ \A r \in Requesters :
                ReturnsNow(r) =>
                   \/ rres'[r] = Err("ThreadDead")
                   \/ /\ rres'[r] = Err("Timeout")
                      /\ rpc[r] = "poll"
                      /\ lockHolder # Nobody
                      /\ TimedOut(r)]_vars

\* the Mutex is poisoned, a request() has returned Err(ThreadDead) and the
\* responder is inside a get_request() that found the poison
C11_Witness ==
    /\ poisoned
    /\ qpc = "get_err"
    /\ \E r \in Requesters :
          rpc[r] = "returned" /\ rres[r] = Err("ThreadDead")

\* C12: a request() that starts after the Responder has been dropped
\* returns Err(ThreadDead) from its upgrade(), without going on to lock().
C12_DroppedMeansThreadDead ==
    [][\A r \in Requesters :
          (qpc = "dropped" /\ rpc[r] = "idle" /\ rpc'[r] # "idle") =>
             (rpc'[r] = "returned" /\ rres'[r] = Err("ThreadDead"))]_vars

(***************************************************************************)
(* Termination of request()                                                *)
(***************************************************************************)

\* r is inside a request() call, past its upgrade()
InCall(r) == rpc[r] \in {"lock", "lock_err", "place", "poll", "poll_err", "take"}

C14_GetOnFree ==
    /\ [](qpc \in {"get_replace", "get_match"} =>
            /\ lockHolder = Responder
            /\ \A r \in Requesters : rpc[r] \notin {"place", "take"})
    /\ [][/\ (qpc = "get_replace" /\ slot = Free /\ qpc' # qpc) =>
               (qpc' = "get_match" /\ qold' = Free)
          /\ (qpc = "get_match" /\ qpc' = qpc) => slot' = slot
          /\ (qpc = "get_match" /\ qold = Free /\ qpc' # qpc) =>
               /\ slot' = Free
               /\ qret' = None
               /\ qpc' = "idle"
               /\ lockHolder' = Nobody
               /\ poisoned' = poisoned
               /\ histVars' = histVars]_vars

\* the responder is inside a get_request() that found State::Free while a
\* requester is blocked in lock()
C14_Witness ==
    /\ qpc = "get_match"
    /\ qold = Free
    /\ slot = InProgress
    /\ \E r \in Requesters : rpc[r] = "lock"

(***************************************************************************)
(* The responder's panics                                                  *)
(***************************************************************************)

\* C15: a responder that calls get_request() in a loop and set_response()
\* exactly once after each get_request() that returned Some never panics.
C15_LoopNeverPanics == qpc # "unwind" /\ ~poisoned

(***************************************************************************)
(* After a timeout                                                         *)
(***************************************************************************)

\* C16: once a request() has returned Err(Timeout) the slot is never Free
\* again, and every request() that returns afterwards returns Err(Busy) or
\* Err(ThreadDead), never Ok.
C16_AfterTimeout ==
    /\ [](timedOut => slot # Free)
    /\ [][\A r \in Requesters :
             (timedOut /\ ReturnsNow(r)) =>
                 rres'[r] \in {Err("Busy"), Err("ThreadDead")}]_vars

\* after a timeout the responder has completed the abandoned request and a
\* later request() has returned Err(Busy)
C16_Witness ==
    /\ timedOut
    /\ slot.tag = "Response"
    /\ \E r \in Requesters : rpc[r] = "returned" /\ rres[r] = Err("Busy")

(***************************************************************************)
(* Several requesters                                                      *)
(***************************************************************************)

\* r has placed its request and has not returned yet
Waiting(r) == rpc[r] \in {"poll", "poll_err", "take"}

\* C17: at most one requester is in its waiting phase at a time and the
\* slot is not Free while one is; a request is written only into a Free
\* slot; a request() that reaches its first critical section while another
\* requester is waiting returns Err(Busy) and leaves the slot alone.
C17_OneWaiter ==
    /\ [](/\ Cardinality({r \in Requesters : Waiting(r)}) <= 1
          /\ (\E r \in Requesters : Waiting(r)) => slot # Free)
    /\ [][/\ (slot' # slot /\ slot'.tag = "Request") => slot = Free
          /\ \A r \in Requesters :
                (/\ rpc[r] = "place"
                 /\ rpc'[r] # "place"
                 /\ \E w \in Requesters \ {r} : Waiting(w)) =>
                    /\ rpc'[r] = "returned"
                    /\ rres'[r] = Err("Busy")
                    /\ slot' = slot]_vars

\* one requester is polling while another has acquired the Mutex for its
\* first critical section
C17_Witness ==
    \E r1, r2 \in Requesters :
        /\ r1 # r2
        /\ rpc[r1] = "poll"
        /\ rpc[r2] = "place"
        /\ lockHolder = Requester(r2)

(***************************************************************************)
(* What a timeout leaves behind                                            *)
(***************************************************************************)

Occupied == slot.tag \in {"Request", "InProgress", "Response"}

\* a request() returning Err(Timeout) does not touch the slot, which holds
\* a Request, InProgress or a Response
TimeoutKeepsSlot ==
    \A r \in Requesters :
        (ReturnsNow(r) /\ rres'[r] = Err("Timeout")) =>
            (Occupied /\ slot' = slot)

\* C18 (as stated): a request() returning Err(Timeout) leaves the slot
\* untouched and not Free, and every request() that returns afterwards
\* while the slot exists and is still occupied returns Err(Busy).
C18_BusyAfterTimeout ==
    [][/\ TimeoutKeepsSlot
       /\ \A r \in Requesters :
             (timedOut /\ slotStrong > 0 /\ Occupied /\ ReturnsNow(r)) =>
                 rres'[r] = Err("Busy")]_vars

\* C18 (amended): a request() returning Err(Timeout) leaves the slot
\* untouched and not Free, and every request() that returns afterwards
\* while the slot is still occupied returns Err(Busy), or Err(ThreadDead)
\* if the Responder has been dropped or the Mutex is poisoned.
C18_TimeoutFrame ==
    [][/\ TimeoutKeepsSlot
       /\ \A r \in Requesters :
             (timedOut /\ Occupied /\ ReturnsNow(r)) =>
                 \/ rres'[r] = Err("Busy")
                 \/ /\ rres'[r] = Err("ThreadDead")
                    /\ (poisoned \/ qpc = "dropped")]_vars

\* a request() has timed out, the slot still holds its request, and a later
\* call is in its first critical section
C18_Witness ==
    /\ timedOut
    /\ slot.tag = "Request"
    /\ \E r \in Requesters : rpc[r] = "place" /\ lockHolder = Requester(r)

(***************************************************************************)
(* Values through the slot                                                 *)
(***************************************************************************)

\* C19: get_request() on Request(x) leaves the slot InProgress and returns
\* x, and returns Some only then; a Request gets into the slot only when a
\* request() places its argument into a Free slot, so no request is
\* returned twice; set_response(y) on InProgress or Request(_) leaves
\* Response(y), and a Response gets into the slot in no other way;
\* request() returns Ok(y) only from its second critical section, when the
\* slot into which it placed its request holds Response(y), and resets the
\* slot to Free.
C19_Faithful ==
    [][/\ (qpc = "get_replace" /\ qpc' # qpc) =>
              (qold' = slot /\ slot' = InProgress)
       /\ (qpc = "get_match" /\ qold.tag = "Request" /\ qpc' # qpc) =>
              /\ slot' = InProgress
              /\ qpc' = "idle"
              /\ qret' = qold.val
       /\ (qpc = "get_match" /\ qpc' = "idle" /\ qret' # None) =>
              qold.tag = "Request"
       /\ (slot' # slot /\ slot'.tag = "Request") =>
              /\ slot = Free
              /\ \E r \in Requesters :
                    /\ rpc[r] = "place" /\ rpc'[r] = "poll"
                    /\ slot' = Request(rarg[r])
       /\ (qpc = "set_match" /\ qold.tag \in {"InProgress", "Request"}
                             /\ qpc' # qpc) =>
              (slot' = Response(qarg) /\ qpc' = "idle")
       /\ (slot' # slot /\ slot'.tag = "Response") =>
              (qpc = "set_match" /\ slot' = Response(qarg))
       /\ \A r \in Requesters :
             /\ (rpc[r] = "poll" /\ rpc'[r] = "take") => slot' = slot
             /\ (~Waiting(r) /\ Waiting(r)') =>
                    (rpc[r] = "place" /\ slot'.tag = "Request")
             /\ (ReturnsNow(r) /\ rres'[r].tag = "Ok") =>
                    /\ rpc[r] = "take"
                    /\ slot = Response(rres'[r].val)
                    /\ slot' = Free]_vars

\* a request() has returned Ok(2)
C19_Witness ==
    \E r \in Requesters : rpc[r] = "returned" /\ rres[r] = Ok(2)

\* the responder's call panics in this step
PanicsNow == qpc # "unwind" /\ qpc' = "unwind"

\* r's call has not got past its lock()
NotPastLock(r) == rpc[r] \in {"idle", "lock", "lock_err"}

\* C20: the responder panics exactly when get_request() finds InProgress
\* or set_response() finds a Response or Free; the panic poisons the Mutex
\* for good, and from then on a request() that has not got past its lock()
\* never enters a critical section and returns Err(ThreadDead).
C20_PanicsExactly ==
    [][/\ PanicsNow <=>
             \/ qpc = "get_match" /\ qold.tag = "InProgress" /\ qpc' # qpc
             \/ qpc = "set_match" /\ qold.tag \in {"Response", "Free"}
                                  /\ qpc' # qpc
       /\ PanicsNow => (poisoned' /\ slot' = slot)
       /\ poisoned => poisoned'
       /\ \A r \in Requesters :
             (poisoned /\ NotPastLock(r)) =>
                 /\ NotPastLock(r)' \/ rpc'[r] = "returned"
                 /\ ReturnsNow(r) => rres'[r] = Err("ThreadDead")]_vars

\* after a panic of the responder a later request() is in the Err(_) arm
\* of its lock()
C20_Witness ==
    /\ poisoned
    /\ qpc = "unwind"
    /\ \E r \in Requesters : rpc[r] = "lock_err"

====
